---- MODULE Spec2Model ----
(***************************************************************************)
(* Model of ApiHandler (src/handler/api.ts): the machine reservation       *)
(* workflow over the MachineStateTable (Record Store), the DataCache, the  *)
(* IdentityProviderClient and the SmartMachineClient.                      *)
(*                                                                         *)
(* Spec runs handle() as one uninterrupted operation per step.             *)
(***************************************************************************)
EXTENDS Naturals, Sequences, FiniteSets, TLC

(* ------------------------------ bounds --------------------------------- *)
MaxMachines == 2
MaxJobs == 1

(* ------------------------------ values --------------------------------- *)
MachineNames == <<"m1", "m2", "m3", "m4", "m5">>
JobNames == <<"j1", "j2", "j3", "j4">>
LocationNames == <<"loc-1", "loc-2", "loc-3">>

MachineIds == {MachineNames[i] : i \in 1..MaxMachines}
JobIds == {JobNames[i] : i \in 1..MaxJobs}
UnknownMachineId == "m9"

AVAILABLE == "AVAILABLE"
AWAITING_DROPOFF == "AWAITING_DROPOFF"
RUNNING == "RUNNING"
MachineStatus == {AVAILABLE, AWAITING_DROPOFF, RUNNING}

OK == "OK"
BAD_REQUEST == "BAD_REQUEST"
UNAUTHORIZED == "UNAUTHORIZED"
NOT_FOUND == "NOT_FOUND"
INTERNAL_SERVER_ERROR == "INTERNAL_SERVER_ERROR"

\* JavaScript's undefined, as a field value and as a missing document
undefined == "undefined"
undefinedDoc == [machineId |-> undefined, locationId |-> undefined,
                 status |-> undefined, currentJobId |-> undefined]
nullDoc == [machineId |-> "null", locationId |-> "null",
            status |-> "null", currentJobId |-> "null"]

\* location of the i-th provisioned machine: two machines per location
LocationOf(i) == LocationNames[((i - 1) \div 2) + 1]

\* the locations requests name: those of the machines and one without machines
LocationIds == {LocationOf(i) : i \in 1..MaxMachines} \cup {"loc-9"}

MachineStateDocument(i, status, jobId) ==
    [machineId |-> MachineNames[i], locationId |-> LocationOf(i),
     status |-> status, currentJobId |-> jobId]

VARIABLES store, cache, last, started, procs

vars == <<store, cache, last, started, procs>>

(* ------------------- collaborators (interface contracts) --------------- *)

\* IdentityProviderClient.validateToken
validateToken(token) == token = "valid-token"

\* MachineStateTable.listMachinesAtLocation: records in store order
listMachinesAtLocation(s, locationId) ==
    LET ids == SelectSeq([i \in 1..MaxMachines |-> MachineNames[i]],
                         LAMBDA m : s[m].locationId = locationId)
    IN [k \in 1..Len(ids) |-> s[ids[k]]]

\* MachineStateTable.getMachine
getMachine(s, machineId) ==
    IF machineId \in DOMAIN s THEN s[machineId] ELSE undefinedDoc

\* MachineStateTable.updateMachineStatus
updateMachineStatus(s, machineId, status) ==
    IF machineId \in DOMAIN s
    THEN [s EXCEPT ![machineId].status = status]
    ELSE s

\* MachineStateTable.updateMachineJobId
updateMachineJobId(s, machineId, jobId) ==
    IF machineId \in DOMAIN s
    THEN [s EXCEPT ![machineId].currentJobId = jobId]
    ELSE s

\* DataCache.get
cacheGet(c, key) == IF key \in DOMAIN c THEN c[key] ELSE undefinedDoc

\* DataCache.put
cachePut(c, key, doc) ==
    [k \in (DOMAIN c) \cup {key} |-> IF k = key THEN doc ELSE c[k]]

(* ------------------------------ requests ------------------------------- *)

Tokens == {"valid-token", "bad-token"}
Methods == {"GET", "POST"}

\* a path is the sequence of its segments: <<"machine", "m1">> is /machine/m1
IdSegments == MachineIds \cup {UnknownMachineId, "request", "start", "machine"}
Paths ==
    {<<"machine", "request">>, <<"machine">>, <<"machine", "m_1">>,
     <<"machine", "m1", "stop">>, <<"other", "m1">>}
    \cup {<<"machine", m>> : m \in MachineIds \cup {UnknownMachineId}}
    \cup {<<"machine", m, "start">> : m \in MachineIds \cup {UnknownMachineId}}

\* locationId and jobId travel in the body of POST /machine/request only
Requests ==
    [token : Tokens, method : Methods, path : Paths \ {<<"machine", "request">>},
     locationId : {undefined}, jobId : {undefined}]
    \cup [token : Tokens, method : Methods \ {"POST"}, path : {<<"machine", "request">>},
          locationId : {undefined}, jobId : {undefined}]
    \cup [token : Tokens, method : {"POST"}, path : {<<"machine", "request">>},
          locationId : LocationIds, jobId : JobIds]

(* ------------------------------ outcomes ------------------------------- *)

Response(statusCode, machine) ==
    [kind |-> "return", statusCode |-> statusCode, machine |-> machine]
Thrown(statusCode) ==
    [kind |-> "throw", statusCode |-> statusCode, machine |-> undefinedDoc]

\* the errors collaborators throw, which the handlers neither catch nor
\* translate
StartCycleFailure == "startCycle failed"
UpdateStatusFailure == "updateMachineStatus failed"
CollaboratorFailures == {StartCycleFailure, UpdateStatusFailure}

\* the collaborator calls that may throw during a Start: the controller's
\* startCycle and the table's updateMachineStatus after it
Faults == SUBSET {"startCycle", "updateMachineStatus"}
NoFaults == {}

\* what one run of a handler leaves behind: the store, the cache, the
\* response, the number of store reads and the startCycle calls it made
Outcome(route, machineId, s, c, res, reads, calls) ==
    [route |-> route, machineId |-> machineId, store |-> s, cache |-> c,
     res |-> res, reads |-> reads, calls |-> calls]

(* ------------------------------ handlers ------------------------------- *)

\* checkToken: returns normally iff the identity provider says true
checkToken(token) == validateToken(token) = TRUE

\* variants of handleRequestMachine, each with one slip of the code

\* returns the record as listed, not the record re-read after the updates
handleRequestMachine_staleReturn(s, c, request) ==
    LET machines_at_location == listMachinesAtLocation(s, request.locationId)
        available_machines_at_location ==
            SelectSeq(machines_at_location, LAMBDA m : m.status = AVAILABLE)
    IN  IF Len(machines_at_location) = 0
        THEN Outcome("request", undefined, s, c,
                     Response(NOT_FOUND, undefinedDoc), 1, <<>>)
        ELSE IF Len(available_machines_at_location) = 0
        THEN Outcome("request", undefined, s, c,
                     Response(BAD_REQUEST, undefinedDoc), 1, <<>>)
        ELSE LET first_available_machine == available_machines_at_location[1]
                 curr_machine_id == first_available_machine.machineId
                 s1 == updateMachineStatus(s, curr_machine_id, AWAITING_DROPOFF)
                 s2 == updateMachineJobId(s1, curr_machine_id, request.jobId)
             IN  Outcome("request", curr_machine_id, s2,
                         cachePut(c, curr_machine_id, first_available_machine),
                         Response(OK, first_available_machine), 1, <<>>)

\* answers NOT_FOUND also when the location has machines but none AVAILABLE
handleRequestMachine_oneCheck(s, c, request) ==
    LET machines_at_location == listMachinesAtLocation(s, request.locationId)
        available_machines_at_location ==
            SelectSeq(machines_at_location, LAMBDA m : m.status = AVAILABLE)
    IN  IF Len(available_machines_at_location) = 0
        THEN Outcome("request", undefined, s, c,
                     Response(NOT_FOUND, undefinedDoc), 1, <<>>)
        ELSE LET curr_machine_id == available_machines_at_location[1].machineId
                 s1 == updateMachineStatus(s, curr_machine_id, AWAITING_DROPOFF)
                 s2 == updateMachineJobId(s1, curr_machine_id, request.jobId)
                 updated_machine == getMachine(s2, curr_machine_id)
             IN  Outcome("request", curr_machine_id, s2,
                         cachePut(c, curr_machine_id, updated_machine),
                         Response(OK, updated_machine), 2, <<>>)

\* takes the first machine of the location without filtering on AVAILABLE
handleRequestMachine_noFilter(s, c, request) ==
    LET machines_at_location == listMachinesAtLocation(s, request.locationId)
    IN  IF Len(machines_at_location) = 0
        THEN Outcome("request", undefined, s, c,
                     Response(NOT_FOUND, undefinedDoc), 1, <<>>)
        ELSE LET curr_machine_id == machines_at_location[1].machineId
                 s1 == updateMachineStatus(s, curr_machine_id, AWAITING_DROPOFF)
                 s2 == updateMachineJobId(s1, curr_machine_id, request.jobId)
                 updated_machine == getMachine(s2, curr_machine_id)
             IN  Outcome("request", curr_machine_id, s2,
                         cachePut(c, curr_machine_id, updated_machine),
                         Response(OK, updated_machine), 2, <<>>)

\* updates the status but never binds the job id
handleRequestMachine_noJobId(s, c, request) ==
    LET machines_at_location == listMachinesAtLocation(s, request.locationId)
        available_machines_at_location ==
            SelectSeq(machines_at_location, LAMBDA m : m.status = AVAILABLE)
    IN  IF Len(machines_at_location) = 0
        THEN Outcome("request", undefined, s, c,
                     Response(NOT_FOUND, undefinedDoc), 1, <<>>)
        ELSE IF Len(available_machines_at_location) = 0
        THEN Outcome("request", undefined, s, c,
                     Response(BAD_REQUEST, undefinedDoc), 1, <<>>)
        ELSE LET curr_machine_id == available_machines_at_location[1].machineId
                 s1 == updateMachineStatus(s, curr_machine_id, AWAITING_DROPOFF)
                 updated_machine == getMachine(s1, curr_machine_id)
             IN  Outcome("request", curr_machine_id, s1,
                         cachePut(c, curr_machine_id, updated_machine),
                         Response(OK, updated_machine), 2, <<>>)

\* takes the last AVAILABLE machine of the list instead of the first
handleRequestMachine_lastFit(s, c, request) ==
    LET machines_at_location == listMachinesAtLocation(s, request.locationId)
        available_machines_at_location ==
            SelectSeq(machines_at_location, LAMBDA m : m.status = AVAILABLE)
    IN  IF Len(machines_at_location) = 0
        THEN Outcome("request", undefined, s, c,
                     Response(NOT_FOUND, undefinedDoc), 1, <<>>)
        ELSE IF Len(available_machines_at_location) = 0
        THEN Outcome("request", undefined, s, c,
                     Response(BAD_REQUEST, undefinedDoc), 1, <<>>)
        ELSE LET curr_machine_id ==
                     available_machines_at_location[
                         Len(available_machines_at_location)].machineId
                 s1 == updateMachineStatus(s, curr_machine_id, AWAITING_DROPOFF)
                 s2 == updateMachineJobId(s1, curr_machine_id, request.jobId)
                 updated_machine == getMachine(s2, curr_machine_id)
             IN  Outcome("request", curr_machine_id, s2,
                         cachePut(c, curr_machine_id, updated_machine),
                         Response(OK, updated_machine), 2, <<>>)

\* updates the store but never refreshes the cache
handleRequestMachine_noPut(s, c, request) ==
    LET machines_at_location == listMachinesAtLocation(s, request.locationId)
        available_machines_at_location ==
            SelectSeq(machines_at_location, LAMBDA m : m.status = AVAILABLE)
    IN  IF Len(machines_at_location) = 0
        THEN Outcome("request", undefined, s, c,
                     Response(NOT_FOUND, undefinedDoc), 1, <<>>)
        ELSE IF Len(available_machines_at_location) = 0
        THEN Outcome("request", undefined, s, c,
                     Response(BAD_REQUEST, undefinedDoc), 1, <<>>)
        ELSE LET curr_machine_id == available_machines_at_location[1].machineId
                 s1 == updateMachineStatus(s, curr_machine_id, AWAITING_DROPOFF)
                 s2 == updateMachineJobId(s1, curr_machine_id, request.jobId)
                 updated_machine == getMachine(s2, curr_machine_id)
             IN  Outcome("request", curr_machine_id, s2, c,
                         Response(OK, updated_machine), 2, <<>>)

handleRequestMachine(s, c, request) ==
    LET machines_at_location == listMachinesAtLocation(s, request.locationId)
        available_machines_at_location ==
            SelectSeq(machines_at_location, LAMBDA m : m.status = AVAILABLE)
    IN  IF Len(machines_at_location) = 0
        THEN Outcome("request", undefined, s, c,
                     Response(NOT_FOUND, undefinedDoc), 1, <<>>)
        ELSE IF Len(available_machines_at_location) = 0
        THEN Outcome("request", undefined, s, c,
                     Response(BAD_REQUEST, undefinedDoc), 1, <<>>)
        ELSE LET curr_machine_id == available_machines_at_location[1].machineId
                 s1 == updateMachineStatus(s, curr_machine_id, AWAITING_DROPOFF)
                 s2 == updateMachineJobId(s1, curr_machine_id, request.jobId)
                 updated_machine == getMachine(s2, curr_machine_id)
             IN  Outcome("request", curr_machine_id, s2,
                         cachePut(c, curr_machine_id, updated_machine),
                         Response(OK, updated_machine), 2, <<>>)

\* variants of handleGetMachine

\* puts whatever the store returned into the cache before testing it
handleGetMachine_putBeforeCheck(s, c, machineId) ==
    LET cached == cacheGet(c, machineId)
        fetched == getMachine(s, machineId)
    IN  IF cached # undefinedDoc
        THEN Outcome("get", machineId, s, c, Response(OK, cached), 0, <<>>)
        ELSE IF fetched = undefinedDoc
        THEN Outcome("get", machineId, s, cachePut(c, machineId, fetched),
                     Response(NOT_FOUND, undefinedDoc), 1, <<>>)
        ELSE Outcome("get", machineId, s, cachePut(c, machineId, fetched),
                     Response(OK, fetched), 1, <<>>)

\* never populates the cache on a miss
handleGetMachine_noPut(s, c, machineId) ==
    LET cached == cacheGet(c, machineId)
        fetched == getMachine(s, machineId)
    IN  IF cached # undefinedDoc
        THEN Outcome("get", machineId, s, c, Response(OK, cached), 0, <<>>)
        ELSE IF fetched = undefinedDoc
        THEN Outcome("get", machineId, s, c,
                     Response(NOT_FOUND, undefinedDoc), 1, <<>>)
        ELSE Outcome("get", machineId, s, c, Response(OK, fetched), 1, <<>>)

handleGetMachine(s, c, machineId) ==
    LET cached == cacheGet(c, machineId)
        fetched == getMachine(s, machineId)
    IN  IF cached # undefinedDoc
        THEN Outcome("get", machineId, s, c, Response(OK, cached), 0, <<>>)
        ELSE IF fetched = undefinedDoc
        THEN Outcome("get", machineId, s, c,
                     Response(NOT_FOUND, undefinedDoc), 1, <<>>)
        ELSE Outcome("get", machineId, s, cachePut(c, machineId, fetched),
                     Response(OK, fetched), 1, <<>>)

\* variants of handleStartMachine

\* rejects only RUNNING, so an AVAILABLE machine passes the status check
handleStartMachine_onlyRunning(s, c, machineId, faults) ==
    LET cached == cacheGet(c, machineId)
        fetched == getMachine(s, machineId)
        reads == IF cached = undefinedDoc THEN 1 ELSE 0
        curr_machine == IF cached = undefinedDoc THEN fetched ELSE cached
    IN  IF curr_machine = undefinedDoc
        THEN Outcome("start", machineId, s, c,
                     Response(NOT_FOUND, undefinedDoc), reads, <<>>)
        ELSE IF curr_machine.status = RUNNING
        THEN Outcome("start", machineId, s, c,
                     Response(BAD_REQUEST, undefinedDoc), reads, <<>>)
        ELSE IF "startCycle" \in faults
        THEN Outcome("start", machineId, s, c,
                     Thrown(StartCycleFailure), reads, <<machineId>>)
        ELSE IF "updateMachineStatus" \in faults
        THEN Outcome("start", machineId, s, c,
                     Thrown(UpdateStatusFailure), reads, <<machineId>>)
        ELSE LET s1 == updateMachineStatus(s, machineId, RUNNING)
                 updated_machine == getMachine(s1, machineId)
             IN  Outcome("start", machineId, s1,
                         cachePut(c, machineId, updated_machine),
                         Response(OK, updated_machine), reads + 1, <<machineId>>)

\* writes RUNNING to the store but leaves the cache as it was
handleStartMachine_noPut(s, c, machineId, faults) ==
    LET cached == cacheGet(c, machineId)
        fetched == getMachine(s, machineId)
        reads == IF cached = undefinedDoc THEN 1 ELSE 0
        curr_machine == IF cached = undefinedDoc THEN fetched ELSE cached
    IN  IF curr_machine = undefinedDoc
        THEN Outcome("start", machineId, s, c,
                     Response(NOT_FOUND, undefinedDoc), reads, <<>>)
        ELSE IF curr_machine.status # AWAITING_DROPOFF
        THEN Outcome("start", machineId, s, c,
                     Response(BAD_REQUEST, undefinedDoc), reads, <<>>)
        ELSE IF "startCycle" \in faults
        THEN Outcome("start", machineId, s, c,
                     Thrown(StartCycleFailure), reads, <<machineId>>)
        ELSE IF "updateMachineStatus" \in faults
        THEN Outcome("start", machineId, s, c,
                     Thrown(UpdateStatusFailure), reads, <<machineId>>)
        ELSE LET s1 == updateMachineStatus(s, machineId, RUNNING)
                 updated_machine == getMachine(s1, machineId)
             IN  Outcome("start", machineId, s1, c,
                         Response(OK, updated_machine), reads + 1, <<machineId>>)

\* writes RUNNING before it calls startCycle
handleStartMachine_writeFirst(s, c, machineId, faults) ==
    LET cached == cacheGet(c, machineId)
        fetched == getMachine(s, machineId)
        reads == IF cached = undefinedDoc THEN 1 ELSE 0
        curr_machine == IF cached = undefinedDoc THEN fetched ELSE cached
    IN  IF curr_machine = undefinedDoc
        THEN Outcome("start", machineId, s, c,
                     Response(NOT_FOUND, undefinedDoc), reads, <<>>)
        ELSE IF curr_machine.status # AWAITING_DROPOFF
        THEN Outcome("start", machineId, s, c,
                     Response(BAD_REQUEST, undefinedDoc), reads, <<>>)
        ELSE IF "updateMachineStatus" \in faults
        THEN Outcome("start", machineId, s, c,
                     Thrown(UpdateStatusFailure), reads, <<>>)
        ELSE LET s1 == updateMachineStatus(s, machineId, RUNNING)
                 updated_machine == getMachine(s1, machineId)
             IN  IF "startCycle" \in faults
                 THEN Outcome("start", machineId, s1, c,
                              Thrown(StartCycleFailure), reads, <<machineId>>)
                 ELSE Outcome("start", machineId, s1,
                              cachePut(c, machineId, updated_machine),
                              Response(OK, updated_machine), reads + 1,
                              <<machineId>>)

\* puts the RUNNING record into the cache before it writes the store
handleStartMachine_putFirst(s, c, machineId, faults) ==
    LET cached == cacheGet(c, machineId)
        fetched == getMachine(s, machineId)
        reads == IF cached = undefinedDoc THEN 1 ELSE 0
        curr_machine == IF cached = undefinedDoc THEN fetched ELSE cached
    IN  IF curr_machine = undefinedDoc
        THEN Outcome("start", machineId, s, c,
                     Response(NOT_FOUND, undefinedDoc), reads, <<>>)
        ELSE IF curr_machine.status # AWAITING_DROPOFF
        THEN Outcome("start", machineId, s, c,
                     Response(BAD_REQUEST, undefinedDoc), reads, <<>>)
        ELSE IF "startCycle" \in faults
        THEN Outcome("start", machineId, s, c,
                     Thrown(StartCycleFailure), reads, <<machineId>>)
        ELSE LET updated_machine == [curr_machine EXCEPT !.status = RUNNING]
                 c1 == cachePut(c, machineId, updated_machine)
             IN  IF "updateMachineStatus" \in faults
                 THEN Outcome("start", machineId, s, c1,
                              Thrown(UpdateStatusFailure), reads, <<machineId>>)
                 ELSE Outcome("start", machineId,
                              updateMachineStatus(s, machineId, RUNNING), c1,
                              Response(OK, updated_machine), reads + 1,
                              <<machineId>>)

\* rejects only AVAILABLE, so a RUNNING machine passes the status check
handleStartMachine_onlyAvailable(s, c, machineId, faults) ==
    LET cached == cacheGet(c, machineId)
        fetched == getMachine(s, machineId)
        reads == IF cached = undefinedDoc THEN 1 ELSE 0
        curr_machine == IF cached = undefinedDoc THEN fetched ELSE cached
    IN  IF curr_machine = undefinedDoc
        THEN Outcome("start", machineId, s, c,
                     Response(NOT_FOUND, undefinedDoc), reads, <<>>)
        ELSE IF curr_machine.status = AVAILABLE
        THEN Outcome("start", machineId, s, c,
                     Response(BAD_REQUEST, undefinedDoc), reads, <<>>)
        ELSE IF "startCycle" \in faults
        THEN Outcome("start", machineId, s, c,
                     Thrown(StartCycleFailure), reads, <<machineId>>)
        ELSE IF "updateMachineStatus" \in faults
        THEN Outcome("start", machineId, s, c,
                     Thrown(UpdateStatusFailure), reads, <<machineId>>)
        ELSE LET s1 == updateMachineStatus(s, machineId, RUNNING)
                 updated_machine == getMachine(s1, machineId)
             IN  Outcome("start", machineId, s1,
                         cachePut(c, machineId, updated_machine),
                         Response(OK, updated_machine), reads + 1, <<machineId>>)

\* faults: the collaborator calls of this run that throw
handleStartMachine(s, c, machineId, faults) ==
    LET cached == cacheGet(c, machineId)
        fetched == getMachine(s, machineId)
        reads == IF cached = undefinedDoc THEN 1 ELSE 0
        curr_machine == IF cached = undefinedDoc THEN fetched ELSE cached
    IN  IF curr_machine = undefinedDoc
        THEN Outcome("start", machineId, s, c,
                     Response(NOT_FOUND, undefinedDoc), reads, <<>>)
        ELSE IF curr_machine.status # AWAITING_DROPOFF
        THEN Outcome("start", machineId, s, c,
                     Response(BAD_REQUEST, undefinedDoc), reads, <<>>)
        ELSE IF "startCycle" \in faults
        THEN Outcome("start", machineId, s, c,
                     Thrown(StartCycleFailure), reads, <<machineId>>)
        ELSE IF "updateMachineStatus" \in faults
        THEN Outcome("start", machineId, s, c,
                     Thrown(UpdateStatusFailure), reads, <<machineId>>)
        ELSE LET s1 == updateMachineStatus(s, machineId, RUNNING)
                 updated_machine == getMachine(s1, machineId)
             IN  Outcome("start", machineId, s1,
                         cachePut(c, machineId, updated_machine),
                         Response(OK, updated_machine), reads + 1, <<machineId>>)

\* the same pattern without its end anchor: /^\/machine\/([a-zA-Z0-9-]+)/
getMachineMatch_noAnchor(path) ==
    Len(path) >= 2 /\ path[1] = "machine" /\ path[2] \in IdSegments

\* request.path.match(/^\/machine\/([a-zA-Z0-9-]+)$/)
getMachineMatch(path) ==
    Len(path) = 2 /\ path[1] = "machine" /\ path[2] \in IdSegments

\* request.path.match(/^\/machine\/([a-zA-Z0-9-]+)\/start$/)
startMachineMatch(path) ==
    Len(path) = 3 /\ path[1] = "machine" /\ path[2] \in IdSegments
    /\ path[3] = "start"

\* variant of handle: the GET route is dispatched before the token is checked
handle_lateCheck(s, c, request, faults) ==
    IF request.method = "GET" /\ getMachineMatch(request.path)
    THEN handleGetMachine(s, c, request.path[2])
    ELSE IF ~checkToken(request.token)
    THEN Outcome("unauthorized", undefined, s, c, Thrown(UNAUTHORIZED), 0, <<>>)
    ELSE IF request.method = "POST" /\ request.path = <<"machine", "request">>
    THEN handleRequestMachine(s, c, request)
    ELSE IF request.method = "POST" /\ startMachineMatch(request.path)
    THEN handleStartMachine(s, c, request.path[2], faults)
    ELSE Outcome("unmatched", undefined, s, c,
                 Response(INTERNAL_SERVER_ERROR, nullDoc), 0, <<>>)

\* the branch of handle a request takes: the token check, then the routes
\* in the order the code tests them
Route(request) ==
    IF ~checkToken(request.token) THEN "unauthorized"
    ELSE IF request.method = "POST" /\ request.path = <<"machine", "request">>
    THEN "request"
    ELSE IF request.method = "GET" /\ getMachineMatch(request.path) THEN "get"
    ELSE IF request.method = "POST" /\ startMachineMatch(request.path)
    THEN "start"
    ELSE "unmatched"

handle(s, c, request, faults) ==
    CASE Route(request) = "unauthorized" ->
             Outcome("unauthorized", undefined, s, c, Thrown(UNAUTHORIZED), 0, <<>>)
      [] Route(request) = "request" -> handleRequestMachine(s, c, request)
      [] Route(request) = "get" -> handleGetMachine(s, c, request.path[2])
      [] Route(request) = "start" ->
             handleStartMachine(s, c, request.path[2], faults)
      [] OTHER -> Outcome("unmatched", undefined, s, c,
                          Response(INTERNAL_SERVER_ERROR, nullDoc), 0, <<>>)

(* ------------------- handlers, one collaborator call at a time --------- *)

\* two requests in flight at once; each Reserve carries its client's job id
Procs == {"p1", "p2"}
JobOf(p) == IF p = "p1" THEN JobNames[1] ELSE JobNames[2]

\* the position and the local variables of a request inside its handler:
\* pc is the next collaborator call, machineId is curr_machine_id, doc is the
\* record the handler holds (curr_machine or updated_machine), res is what
\* it returned or threw, called tells whether it has called startCycle,
\* stale whether one of its writes found the record changed since it read
\* it, and fresh whether the record that passed the status check of Start
\* was the store's record at that moment
Proc(pc, kind, machineId, doc, res, called, stale) ==
    [pc |-> pc, kind |-> kind, machineId |-> machineId, doc |-> doc,
     res |-> res, called |-> called, stale |-> stale, fresh |-> FALSE]

Idle == Proc("idle", "none", undefined, undefinedDoc, "none", FALSE, FALSE)

\* the handler has returned or thrown
Done(pr, res) == [pr EXCEPT !.pc = "done", !.doc = undefinedDoc, !.res = res]

\* what one collaborator call leaves behind
StepOutcome(s, c, pr) == [store |-> s, cache |-> c, proc |-> pr]

\* handleRequestMachine up to the selection: list, the two checks, the pick
requestList(s, c, locationId) ==
    LET machines_at_location == listMachinesAtLocation(s, locationId)
        available_machines_at_location ==
            SelectSeq(machines_at_location, LAMBDA m : m.status = AVAILABLE)
        pr == Proc("list", "request", undefined, undefinedDoc, "none", FALSE, FALSE)
    IN  IF Len(machines_at_location) = 0
        THEN StepOutcome(s, c, Done(pr, NOT_FOUND))
        ELSE IF Len(available_machines_at_location) = 0
        THEN StepOutcome(s, c, Done(pr, BAD_REQUEST))
        ELSE StepOutcome(s, c,
                 [pr EXCEPT !.pc = "updateMachineStatus",
                            !.machineId =
                                available_machines_at_location[1].machineId])

\* table_instance.updateMachineStatus(curr_machine_id, AWAITING_DROPOFF)
requestUpdateStatus(s, c, pr) ==
    StepOutcome(updateMachineStatus(s, pr.machineId, AWAITING_DROPOFF), c,
                [pr EXCEPT !.pc = "updateMachineJobId",
                           !.stale = pr.stale
                                     \/ s[pr.machineId].status # AVAILABLE])

\* a binding that is written only when the record holds no job yet
requestUpdateJobId_keepFirst(s, c, pr, jobId) ==
    StepOutcome(IF s[pr.machineId].currentJobId = undefined
                THEN updateMachineJobId(s, pr.machineId, jobId)
                ELSE s,
                c,
                [pr EXCEPT !.pc = "getMachine",
                           !.stale = pr.stale
                                     \/ s[pr.machineId].currentJobId # undefined])

\* table_instance.updateMachineJobId(curr_machine_id, requested_job_ID)
requestUpdateJobId(s, c, pr, jobId) ==
    StepOutcome(updateMachineJobId(s, pr.machineId, jobId), c,
                [pr EXCEPT !.pc = "getMachine",
                           !.stale = pr.stale
                                     \/ s[pr.machineId].currentJobId # undefined])

\* updated_machine = table_instance.getMachine(curr_machine_id)
requestReRead(s, c, pr) ==
    StepOutcome(s, c, [pr EXCEPT !.pc = "put",
                                 !.doc = getMachine(s, pr.machineId)])

\* curr_cache_instance.put(curr_machine_id, updated_machine) and the return
requestPut(s, c, pr) ==
    StepOutcome(s, cachePut(c, pr.machineId, pr.doc), Done(pr, OK))

\* handleGetMachine: the cache lookup
getCacheGet(s, c, machineId) ==
    LET pr == Proc("get", "get", machineId, cacheGet(c, machineId), "none",
                   FALSE, FALSE)
    IN  IF pr.doc # undefinedDoc
        THEN StepOutcome(s, c, Done(pr, OK))
        ELSE StepOutcome(s, c, [pr EXCEPT !.pc = "getMachine"])

\* curr_machine = curr_table_instance.getMachine(curr_machine_id)
getRead(s, c, pr) ==
    LET fetched == getMachine(s, pr.machineId)
    IN  IF fetched = undefinedDoc
        THEN StepOutcome(s, c, Done(pr, NOT_FOUND))
        ELSE StepOutcome(s, c, [pr EXCEPT !.pc = "put", !.doc = fetched])

\* curr_cache_instance.put(curr_machine_id, curr_machine) and the return
getPut(s, c, pr) ==
    StepOutcome(s, cachePut(c, pr.machineId, pr.doc), Done(pr, OK))

\* the status check of handleStartMachine on the record it resolved
startCheck(s, c, pr) ==
    IF pr.doc.status # AWAITING_DROPOFF
    THEN StepOutcome(s, c, Done(pr, BAD_REQUEST))
    ELSE StepOutcome(s, c, [pr EXCEPT !.pc = "startCycle",
                                      !.fresh = (pr.doc = s[pr.machineId])])

\* handleStartMachine: the cache lookup, and on a hit the status check
startCacheGet(s, c, machineId) ==
    LET pr == Proc("get", "start", machineId, cacheGet(c, machineId), "none",
                   FALSE, FALSE)
    IN  IF pr.doc # undefinedDoc
        THEN startCheck(s, c, pr)
        ELSE StepOutcome(s, c, [pr EXCEPT !.pc = "getMachine"])

\* on a miss: curr_table_instance.getMachine, then the status check
startRead(s, c, pr) ==
    LET fetched == getMachine(s, pr.machineId)
    IN  IF fetched = undefinedDoc
        THEN StepOutcome(s, c, Done(pr, NOT_FOUND))
        ELSE startCheck(s, c, [pr EXCEPT !.doc = fetched])

\* api_instance.startCycle(curr_machine_id), which returns or throws
startStartCycle(s, c, pr, faults) ==
    IF "startCycle" \in faults
    THEN StepOutcome(s, c, Done([pr EXCEPT !.called = TRUE], StartCycleFailure))
    ELSE StepOutcome(s, c, [pr EXCEPT !.pc = "updateMachineStatus",
                                      !.called = TRUE])

\* a write that is refused when the record is no longer AWAITING_DROPOFF
startUpdateStatus_guarded(s, c, pr, faults) ==
    IF "updateMachineStatus" \in faults
    THEN StepOutcome(s, c, Done(pr, UpdateStatusFailure))
    ELSE IF s[pr.machineId].status # AWAITING_DROPOFF
    THEN StepOutcome(s, c, Done([pr EXCEPT !.stale = TRUE], BAD_REQUEST))
    ELSE StepOutcome(updateMachineStatus(s, pr.machineId, RUNNING), c,
                     [pr EXCEPT !.pc = "reread"])

\* curr_table_instance.updateMachineStatus(curr_machine_id, RUNNING)
startUpdateStatus(s, c, pr, faults) ==
    IF "updateMachineStatus" \in faults
    THEN StepOutcome(s, c, Done(pr, UpdateStatusFailure))
    ELSE StepOutcome(updateMachineStatus(s, pr.machineId, RUNNING), c,
                     [pr EXCEPT !.pc = "reread",
                                !.stale = s[pr.machineId].status
                                              # AWAITING_DROPOFF])

\* updated_machine = curr_table_instance.getMachine(curr_machine_id)
startReRead(s, c, pr) ==
    StepOutcome(s, c, [pr EXCEPT !.pc = "put",
                                 !.doc = getMachine(s, pr.machineId)])

\* curr_cache_instance.put(curr_machine_id, updated_machine) and the return
startPut(s, c, pr) ==
    StepOutcome(s, cachePut(c, pr.machineId, pr.doc), Done(pr, OK))

(* ------------------------------ behaviour ------------------------------ *)

\* index of a provisioned machine in the store's order
IndexOf(machineId) == CHOOSE i \in 1..MaxMachines : MachineNames[i] = machineId

\* provisioned records: currentJobId is set iff the machine is not AVAILABLE
InitialStores ==
    {[m \in MachineIds |->
         MachineStateDocument(IndexOf(m), status[m],
             IF status[m] = AVAILABLE THEN undefined ELSE jobId[m])] :
        status \in [MachineIds -> MachineStatus], jobId \in [MachineIds -> JobIds]}

Init ==
    /\ store \in InitialStores
    /\ cache = <<>>
    /\ last = [route |-> "none", machineId |-> undefined,
               res |-> Response(undefined, undefinedDoc), reads |-> 0,
               calls |-> <<>>, secondGet |-> FALSE]
    /\ started = {}
    /\ procs = [p \in Procs |-> Idle]

\* one call of handle(request), run to completion; last keeps what the call
\* returned or threw, its store reads, its startCycle calls, and whether it
\* is a Get that directly follows a Get of the same machine id; started
\* keeps the machines for which a Start has returned ok
Complete(out) ==
    /\ store' = out.store
    /\ cache' = out.cache
    /\ last' = [route |-> out.route, machineId |-> out.machineId,
                res |-> out.res, reads |-> out.reads, calls |-> out.calls,
                secondGet |-> /\ out.route = "get" /\ last.route = "get"
                              /\ out.machineId = last.machineId]
    /\ started' = IF out.route = "start" /\ out.res.statusCode = OK
                  THEN started \cup {out.machineId}
                  ELSE started
    /\ procs' = procs

\* one action per branch of handle: the requests that take the branch
Unauthorized ==
    \E request \in Requests :
        /\ Route(request) = "unauthorized"
        /\ Complete(handle(store, cache, request, NoFaults))

RequestMachine ==
    \E request \in Requests :
        /\ Route(request) = "request"
        /\ Complete(handle(store, cache, request, NoFaults))

GetMachine ==
    \E request \in Requests :
        /\ Route(request) = "get"
        /\ Complete(handle(store, cache, request, NoFaults))

\* each collaborator call of the Start returns or throws
StartMachine ==
    \E request \in Requests, faults \in Faults :
        /\ Route(request) = "start"
        /\ Complete(handle(store, cache, request, faults))

Unmatched ==
    \E request \in Requests :
        /\ Route(request) = "unmatched"
        /\ Complete(handle(store, cache, request, NoFaults))

Next ==
    \/ Unauthorized
    \/ RequestMachine
    \/ GetMachine
    \/ StartMachine
    \/ Unmatched

Spec == Init /\ [][Next]_vars


(* -------------------- behaviour with interleaved requests -------------- *)

Step(p, o) ==
    /\ store' = o.store
    /\ cache' = o.cache
    /\ procs' = [procs EXCEPT ![p] = o.proc]
    /\ UNCHANGED <<last, started>>

\* the requests in flight contend for the machines of the first location;
\* they also name a location and a machine that do not exist
ContendedLocationIds == {LocationOf(1), "loc-9"}
ContendedMachineIds ==
    {MachineNames[i] : i \in {j \in 1..MaxMachines : LocationOf(j) = LocationOf(1)}}
        \cup {UnknownMachineId}

Free(p) == procs[p].pc \in {"idle", "done"}
At(p, kind, pc) == procs[p].kind = kind /\ procs[p].pc = pc

RequestList(p) ==
    \E locationId \in ContendedLocationIds :
        Free(p) /\ Step(p, requestList(store, cache, locationId))

RequestUpdateStatus(p) ==
    /\ At(p, "request", "updateMachineStatus")
    /\ Step(p, requestUpdateStatus(store, cache, procs[p]))

RequestUpdateJobId(p) ==
    /\ At(p, "request", "updateMachineJobId")
    /\ Step(p, requestUpdateJobId(store, cache, procs[p], JobOf(p)))

RequestReRead(p) ==
    /\ At(p, "request", "getMachine")
    /\ Step(p, requestReRead(store, cache, procs[p]))

RequestPut(p) ==
    /\ At(p, "request", "put")
    /\ Step(p, requestPut(store, cache, procs[p]))

GetCacheGet(p) ==
    \E machineId \in ContendedMachineIds :
        Free(p) /\ Step(p, getCacheGet(store, cache, machineId))

GetRead(p) ==
    /\ At(p, "get", "getMachine")
    /\ Step(p, getRead(store, cache, procs[p]))

GetPut(p) ==
    /\ At(p, "get", "put")
    /\ Step(p, getPut(store, cache, procs[p]))

StartCacheGet(p) ==
    \E machineId \in ContendedMachineIds :
        Free(p) /\ Step(p, startCacheGet(store, cache, machineId))

StartRead(p) ==
    /\ At(p, "start", "getMachine")
    /\ Step(p, startRead(store, cache, procs[p]))

StartStartCycle(p) ==
    \E faults \in Faults :
        /\ At(p, "start", "startCycle")
        /\ Step(p, startStartCycle(store, cache, procs[p], faults))

StartUpdateStatus(p) ==
    \E faults \in Faults :
        /\ At(p, "start", "updateMachineStatus")
        /\ Step(p, startUpdateStatus(store, cache, procs[p], faults))

StartReRead(p) ==
    /\ At(p, "start", "reread")
    /\ Step(p, startReRead(store, cache, procs[p]))

StartPut(p) ==
    /\ At(p, "start", "put")
    /\ Step(p, startPut(store, cache, procs[p]))

NextConc ==
    \E p \in Procs :
        \/ RequestList(p)
        \/ RequestUpdateStatus(p)
        \/ RequestUpdateJobId(p)
        \/ RequestReRead(p)
        \/ RequestPut(p)
        \/ GetCacheGet(p)
        \/ GetRead(p)
        \/ GetPut(p)
        \/ StartCacheGet(p)
        \/ StartRead(p)
        \/ StartStartCycle(p)
        \/ StartUpdateStatus(p)
        \/ StartReRead(p)
        \/ StartPut(p)

\* the interleaved requests start on a table whose machines are all free
InitConc ==
    /\ Init
    /\ \A m \in MachineIds : store[m].status = AVAILABLE

SpecConc == InitConc /\ [][NextConc]_vars

TypeOK ==
    /\ DOMAIN store = MachineIds
    /\ DOMAIN cache \subseteq IdSegments
    /\ last.reads \in 0..2
    /\ Len(last.calls) <= 1

(* ------------------------------- claims -------------------------------- *)

\* the body of a Reserve request
Reserve(locationId, jobId) ==
    [token |-> "valid-token", method |-> "POST", path |-> <<"machine", "request">>,
     locationId |-> locationId, jobId |-> jobId]

AvailableAt(s, locationId) ==
    {m \in DOMAIN s : s[m].locationId = locationId /\ s[m].status = AVAILABLE}

\* C1: Reserve(locationId, jobId) on a store where the location has at least
\* one AVAILABLE machine returns ok and changes exactly one machine record:
\* one machine of that location that was AVAILABLE becomes AWAITING_DROPOFF
\* with currentJobId = jobId, every other record is unchanged, and the
\* returned record is that machine's store record.
C1_ReserveChangesExactlyOne ==
    \A locationId \in LocationIds, jobId \in JobIds :
        AvailableAt(store, locationId) # {} =>
            LET out == handleRequestMachine(store, cache, Reserve(locationId, jobId))
            IN  /\ out.res.kind = "return"
                /\ out.res.statusCode = OK
                /\ DOMAIN out.store = DOMAIN store
                /\ \E m \in AvailableAt(store, locationId) :
                      /\ out.store[m] = [store[m] EXCEPT
                                            !.status = AWAITING_DROPOFF,
                                            !.currentJobId = jobId]
                      /\ \A o \in DOMAIN store \ {m} : out.store[o] = store[o]
                      /\ out.res.machine = out.store[m]

\* a Reserve has just returned ok for a machine that has a sibling at its
\* location, and the sibling is still AVAILABLE
C1_Witness ==
    /\ last.route = "request"
    /\ last.res.statusCode = OK
    /\ last.machineId \in DOMAIN store
    /\ store[last.machineId].status = AWAITING_DROPOFF
    /\ last.res.machine = store[last.machineId]
    /\ \E o \in DOMAIN store \ {last.machineId} :
          /\ store[o].locationId = store[last.machineId].locationId
          /\ store[o].status = AVAILABLE

\* C2: Reserve on a location with zero machine records returns not-found,
\* Reserve on a location whose records are all non-AVAILABLE returns
\* bad-request, and in both cases the store and the cache are unchanged.
C2_ReserveFailuresChangeNothing ==
    \A locationId \in LocationIds, jobId \in JobIds :
        LET out == handleRequestMachine(store, cache, Reserve(locationId, jobId))
            records == {m \in DOMAIN store : store[m].locationId = locationId}
        IN  /\ records = {} =>
                /\ out.res = Response(NOT_FOUND, undefinedDoc)
                /\ out.store = store
                /\ out.cache = cache
            /\ (records # {} /\ AvailableAt(store, locationId) = {}) =>
                /\ out.res = Response(BAD_REQUEST, undefinedDoc)
                /\ out.store = store
                /\ out.cache = cache

\* a Reserve has just been refused with bad-request at a location whose
\* machines are all taken, one of them taken by an earlier Reserve (cached)
C2_Witness ==
    /\ last.route = "request"
    /\ last.res = Response(BAD_REQUEST, undefinedDoc)
    /\ \E m \in DOMAIN store :
          /\ m \in DOMAIN cache
          /\ store[m].status = AWAITING_DROPOFF
          /\ AvailableAt(store, store[m].locationId) = {}

\* the snapshot Start resolves: the cache entry, or on a miss the store record
Resolved(machineId) ==
    IF cacheGet(cache, machineId) # undefinedDoc
    THEN cacheGet(cache, machineId)
    ELSE getMachine(store, machineId)

\* C3: Start on an existing machine whose resolved status is AVAILABLE or
\* RUNNING returns bad-request, makes no startCycle call and changes neither
\* the store nor the cache, also when the machine was resolved from the
\* store after a cache miss.
C3_StartRefusedChangesNothing ==
    \A machineId \in IdSegments, faults \in Faults :
        Resolved(machineId).status \in {AVAILABLE, RUNNING} =>
            LET out == handleStartMachine(store, cache, machineId, faults)
            IN  /\ out.res = Response(BAD_REQUEST, undefinedDoc)
                /\ out.calls = <<>>
                /\ out.store = store
                /\ out.cache = cache

\* a Start has just been refused for a machine read from the store after a
\* cache miss, and the cache still has no entry for it
C3_Witness ==
    /\ last.route = "start"
    /\ last.res = Response(BAD_REQUEST, undefinedDoc)
    /\ last.reads = 1
    /\ last.machineId \in DOMAIN store
    /\ last.machineId \notin DOMAIN cache
    /\ store[last.machineId].status \in {AVAILABLE, RUNNING}
    /\ last.calls = <<>>

\* C4: Start on a machine whose status is AWAITING_DROPOFF, with a succeeding
\* controller, calls startCycle exactly once with that machine id, leaves the
\* store record RUNNING with the same currentJobId, leaves the cache entry of
\* that id equal to the store record, and returns ok with that record.
C4_StartRunsMachine ==
    \A machineId \in DOMAIN store :
        store[machineId].status = AWAITING_DROPOFF =>
            LET out == handleStartMachine(store, cache, machineId, NoFaults)
            IN  /\ out.calls = <<machineId>>
                /\ out.store[machineId] = [store[machineId] EXCEPT !.status = RUNNING]
                /\ cacheGet(out.cache, machineId) = out.store[machineId]
                /\ out.res = Response(OK, out.store[machineId])

\* a Start has just returned ok for a machine that a Reserve had bound to a job
C4_Witness ==
    /\ last.route = "start"
    /\ last.res.statusCode = OK
    /\ last.calls = <<last.machineId>>
    /\ store[last.machineId].status = RUNNING
    /\ store[last.machineId].currentJobId \in JobIds
    /\ cacheGet(cache, last.machineId) = store[last.machineId]

\* C5: Get never changes the store; it changes at most the cache entry of the
\* requested id, and only on a cache miss where the store has the record;
\* when the id is in neither, Get returns not-found and the cache still has
\* no entry for the id.
C5_GetIsReadOnly ==
    \A machineId \in IdSegments :
        LET out == handleGetMachine(store, cache, machineId)
        IN  /\ out.store = store
            /\ DOMAIN out.cache \subseteq (DOMAIN cache) \cup {machineId}
            /\ \A k \in DOMAIN cache : k \in DOMAIN out.cache
            /\ \A k \in DOMAIN cache \ {machineId} : out.cache[k] = cache[k]
            /\ out.cache # cache =>
                  (machineId \notin DOMAIN cache /\ machineId \in DOMAIN store)
            /\ (machineId \notin DOMAIN cache /\ machineId \notin DOMAIN store) =>
                  /\ out.res = Response(NOT_FOUND, undefinedDoc)
                  /\ machineId \notin DOMAIN out.cache

\* a Get of an id held by neither cache nor store has just returned
\* not-found, in a state where an earlier Get has populated the cache
C5_Witness ==
    /\ last.route = "get"
    /\ last.res = Response(NOT_FOUND, undefinedDoc)
    /\ last.machineId \notin DOMAIN store
    /\ last.machineId \notin DOMAIN cache
    /\ \E m \in DOMAIN cache : store[m].status = AVAILABLE

\* C6: of two consecutive Gets of a machine the store holds, both return the
\* same record, equal to the store's record; the first makes at most one
\* store read and the second makes none.
C6_SecondGetIsCacheHit ==
    [][(/\ last.route = "get"
        /\ last'.route = "get"
        /\ last'.machineId = last.machineId
        /\ last.machineId \in DOMAIN store)
       => (/\ last'.res = last.res
           /\ last'.res = Response(OK, store'[last.machineId])
           /\ last.reads <= 1
           /\ last'.reads = 0)]_vars

\* the second of two consecutive Gets of a stored machine has just returned
C6_Witness ==
    /\ last.route = "get"
    /\ last.secondGet
    /\ last.machineId \in DOMAIN store
    /\ last.reads = 0
    /\ last.res = Response(OK, store[last.machineId])

\* C7: every change of a machine's status in the store is either
\* AVAILABLE -> AWAITING_DROPOFF made by Reserve or AWAITING_DROPOFF ->
\* RUNNING made by Start; no machine returns to AVAILABLE or leaves RUNNING.
C7_OnlyLegalTransitions ==
    [][\A m \in DOMAIN store :
          store'[m].status # store[m].status =>
              \/ /\ store[m].status = AVAILABLE
                 /\ store'[m].status = AWAITING_DROPOFF
                 /\ last'.route = "request"
              \/ /\ store[m].status = AWAITING_DROPOFF
                 /\ store'[m].status = RUNNING
                 /\ last'.route = "start"]_vars

\* a Start has just moved a reserved machine, resolved from the cache, to
\* RUNNING while a sibling still awaits drop-off
C7_Witness ==
    /\ last.route = "start"
    /\ last.res.statusCode = OK
    /\ last.reads = 1
    /\ store[last.machineId].status = RUNNING
    /\ \E m \in DOMAIN store \ {last.machineId} :
          /\ store[m].status = AWAITING_DROPOFF
          /\ store[m].locationId = store[last.machineId].locationId
          /\ cacheGet(cache, m) = store[m]

\* C8: from a store where currentJobId is set iff status is not AVAILABLE,
\* the same holds of every record after any sequence of operations.
C8_JobIdIffNotAvailable ==
    \A m \in DOMAIN store :
        (store[m].currentJobId # undefined) <=> (store[m].status # AVAILABLE)

\* a Reserve has just bound a job to a machine while its sibling is RUNNING
C8_Witness ==
    /\ last.route = "request"
    /\ last.res.statusCode = OK
    /\ store[last.machineId].currentJobId \in JobIds
    /\ \E m \in DOMAIN store \ {last.machineId} :
          store[m].status = RUNNING /\ store[m].currentJobId \in JobIds

\* C9: when the Authenticator rejects the token, handle ends unauthorized for
\* every method and path, before any cache or store access and any
\* controller call: store, cache and controller calls are unchanged.
C9_UnauthorizedFirst ==
    \A request \in Requests, faults \in Faults :
        ~validateToken(request.token) =>
            LET out == handle(store, cache, request, faults)
            IN  /\ out.res = Thrown(UNAUTHORIZED)
                /\ out.store = store
                /\ out.cache = cache
                /\ out.calls = <<>>
                /\ out.reads = 0

\* a request with a rejected token has just ended unauthorized in a state
\* where the cache holds entries and a machine awaits drop-off
C9_Witness ==
    /\ last.route = "unauthorized"
    /\ last.res = Thrown(UNAUTHORIZED)
    /\ cache # <<>>
    /\ \E m \in DOMAIN store : store[m].status = AWAITING_DROPOFF

\* the requests of the three routes
RoutedRequests ==
    {r \in Requests :
        \/ r.method = "POST" /\ r.path = <<"machine", "request">>
        \/ r.method = "GET" /\ r.path \in {<<"machine", x>> : x \in IdSegments}
        \/ r.method = "POST"
           /\ r.path \in {<<"machine", x, "start">> : x \in IdSegments}}

\* C10: an authenticated request that matches none of the three routes
\* yields the internal-error result and changes neither the store nor the
\* cache nor the controller calls.
C10_UnmatchedIsInternalError ==
    \A request \in Requests \ RoutedRequests, faults \in Faults :
        validateToken(request.token) =>
            LET out == handle(store, cache, request, faults)
            IN  /\ out.res = Response(INTERNAL_SERVER_ERROR, nullDoc)
                /\ out.store = store
                /\ out.cache = cache
                /\ out.calls = <<>>

\* an unrouted request has just been answered with the internal error while
\* some stored machine is still absent from the cache
C10_Witness ==
    /\ last.route = "unmatched"
    /\ last.res = Response(INTERNAL_SERVER_ERROR, nullDoc)
    /\ last.calls = <<>>
    /\ \E m \in DOMAIN store : m \notin DOMAIN cache

\* C12: the machine a successful Reserve selects is the first AVAILABLE
\* record in the order listMachinesAtLocation returns: every record before
\* it in that order is not AVAILABLE.
C12_ReserveIsFirstFit ==
    \A locationId \in LocationIds, jobId \in JobIds :
        LET out == handleRequestMachine(store, cache, Reserve(locationId, jobId))
            listed == listMachinesAtLocation(store, locationId)
        IN  out.res.statusCode = OK =>
                \E k \in 1..Len(listed) :
                    /\ listed[k].machineId = out.machineId
                    /\ listed[k].status = AVAILABLE
                    /\ \A j \in 1..(k - 1) : listed[j].status # AVAILABLE

\* a Reserve has just taken the first of two AVAILABLE machines of a location
C12_Witness ==
    /\ last.route = "request"
    /\ last.res.statusCode = OK
    /\ \E o \in DOMAIN store :
          /\ store[o].locationId = store[last.machineId].locationId
          /\ IndexOf(last.machineId) < IndexOf(o)
          /\ store[o].status = AVAILABLE
          /\ o \notin DOMAIN cache

\* C13: from an empty cache, after any sequence of uninterleaved Reserve,
\* Get and Start operations every id in the cache maps to a record equal to
\* the store's current record for that id.
C13_CacheEqualsStore ==
    \A id \in DOMAIN cache :
        id \in DOMAIN store /\ cache[id] = store[id]

\* every machine is cached, one as written by a Start and one as written by
\* a Reserve
C13_Witness ==
    /\ DOMAIN cache = DOMAIN store
    /\ \E m \in DOMAIN cache : cache[m].status = RUNNING
    /\ \E m \in DOMAIN cache : cache[m].status = AWAITING_DROPOFF
    /\ last.route \in {"request", "start"}
    /\ last.res.statusCode = OK

\* C15: if startCycle fails during Start, the failure reaches the caller (no
\* ok, bad-request or not-found result), the machine's store record still
\* has status AWAITING_DROPOFF, and the cache is unchanged.
C15_StartCycleFailurePropagates ==
    \A machineId \in DOMAIN store, faults \in Faults :
        (store[machineId].status = AWAITING_DROPOFF /\ "startCycle" \in faults) =>
            LET out == handleStartMachine(store, cache, machineId, faults)
            IN  /\ out.res = Thrown(StartCycleFailure)
                /\ out.calls = <<machineId>>
                /\ out.store[machineId].status = AWAITING_DROPOFF
                /\ out.store = store
                /\ out.cache = cache

\* a Start has just ended with the controller's error on a machine that a
\* Reserve had bound to a job; the machine still awaits drop-off
C15_Witness ==
    /\ last.route = "start"
    /\ last.res = Thrown(StartCycleFailure)
    /\ last.calls = <<last.machineId>>
    /\ store[last.machineId].status = AWAITING_DROPOFF
    /\ cacheGet(cache, last.machineId) = store[last.machineId]

\* C16: if startCycle succeeds in Start and the store's status write then
\* fails, the operation ends with the machine started while the store
\* record and any cache entry still show AWAITING_DROPOFF; nothing
\* reconciles this, so a following Start of the machine passes the status
\* check and calls startCycle again.
C16_FailedWriteLeavesAwaitingDropoff ==
    \A machineId \in DOMAIN store :
        store[machineId].status = AWAITING_DROPOFF =>
            LET out == handleStartMachine(store, cache, machineId,
                                          {"updateMachineStatus"})
                again == handleStartMachine(out.store, out.cache, machineId,
                                            NoFaults)
            IN  /\ out.res = Thrown(UpdateStatusFailure)
                /\ out.calls = <<machineId>>
                /\ out.store[machineId].status = AWAITING_DROPOFF
                /\ machineId \in DOMAIN out.cache =>
                       out.cache[machineId].status = AWAITING_DROPOFF
                /\ again.calls = <<machineId>>
                /\ again.res = Response(OK, again.store[machineId])

\* a Start has just ended with the table's error after it had called
\* startCycle; store and cache still show the machine awaiting drop-off
C16_Witness ==
    /\ last.route = "start"
    /\ last.res = Thrown(UpdateStatusFailure)
    /\ last.calls = <<last.machineId>>
    /\ store[last.machineId].status = AWAITING_DROPOFF
    /\ last.machineId \in DOMAIN cache
    /\ cache[last.machineId].status = AWAITING_DROPOFF

\* C14: over any sequence of uninterleaved operations, after a Start of
\* machine m has returned ok every later Start of m returns bad-request and
\* makes no startCycle call, whatever Reserve and Get operations occur in
\* between: startCycle is called at most once per machine id.
C14_StartedMachineIsNotRestarted ==
    \A machineId \in started, faults \in Faults :
        LET out == handleStartMachine(store, cache, machineId, faults)
        IN  /\ out.res = Response(BAD_REQUEST, undefinedDoc)
            /\ out.calls = <<>>

\* a Start of a machine that an earlier Start had set running has just been
\* refused, after the sibling was reserved in between
C14_Witness ==
    /\ last.route = "start"
    /\ last.machineId \in started
    /\ last.res = Response(BAD_REQUEST, undefinedDoc)
    /\ last.calls = <<>>
    /\ \E o \in DOMAIN cache \ {last.machineId} :
          cache[o].status = AWAITING_DROPOFF

\* C17: Start resolves the machine like Get: on a cache miss where the store
\* has the record, the record is put into the cache before the status
\* check, so after any Start of a machine the store holds (also one refused
\* with bad-request) the cache has an entry for the machine id.
C17_StartPopulatesCache ==
    (last.route = "start" /\ last.machineId \in DOMAIN store)
        => last.machineId \in DOMAIN cache

(* ---- claims about requests whose collaborator calls interleave ---- *)

ReturnedOk(p, kind) ==
    procs[p].kind = kind /\ procs[p].pc = "done" /\ procs[p].res = OK

Selected(p) ==
    procs[p].kind = "request" /\ procs[p].machineId # undefined

\* C11: nothing keeps two interleaved Reserves from taking the same machine.
\* Every Reserve that selected a machine returns ok for it, two Reserves that
\* selected the same machine leave it reserved, and each updateMachineJobId
\* binds the caller's job to the record whatever job the record held, so
\* the later of two bindings replaces the earlier one.
C11_DoubleBookingGoesThrough ==
    /\ [](\A p \in Procs :
            Selected(p) /\ procs[p].pc = "done" => procs[p].res = OK)
    /\ [](\A p, q \in Procs :
            /\ p # q /\ ReturnedOk(p, "request") /\ ReturnedOk(q, "request")
            /\ procs[p].machineId = procs[q].machineId
            => /\ store[procs[p].machineId].status # AVAILABLE
               /\ store[procs[p].machineId].currentJobId \in {JobOf(p), JobOf(q)}
               /\ procs[p].stale \/ procs[q].stale)
    /\ [][\A p \in Procs :
            At(p, "request", "updateMachineJobId") /\ procs'[p] # procs[p]
            => store'[procs[p].machineId].currentJobId = JobOf(p)]_vars

\* both Reserves returned ok for the same machine, and the job of the one
\* whose updateMachineJobId found the other's job on the record is bound
C11_Witness ==
    \E p, q \in Procs :
        /\ p # q /\ JobOf(p) # JobOf(q)
        /\ ReturnedOk(p, "request") /\ ReturnedOk(q, "request")
        /\ procs[p].machineId = procs[q].machineId
        /\ procs[q].stale
        /\ store[procs[q].machineId].currentJobId = JobOf(q)
        /\ store[procs[q].machineId].status = AWAITING_DROPOFF

\* C18 (as stated): once every request that was started has completed, each
\* cache entry equals the store's record for its machine id.
C18_CacheEqualsStoreWhenQuiescent ==
    (\A p \in Procs : Free(p))
        => \A id \in DOMAIN cache : cache[id] = getMachine(store, id)

\* C19: the status check of Start does not guard its write.  A Start that
\* passed the check and called startCycle returns ok unless a collaborator
\* throws, whatever the record's status has become since the check, and a
\* Start returns ok only after it has called startCycle.
C19_StartPastCheckReturnsOk ==
    \A p \in Procs :
        procs[p].kind = "start" /\ procs[p].pc = "done"
        => /\ procs[p].called /\ procs[p].res \notin CollaboratorFailures
              => procs[p].res = OK
           /\ procs[p].res = OK => procs[p].called

\* two Starts of one machine both checked the store's AWAITING_DROPOFF
\* record, both called startCycle and both returned ok; the second wrote
\* RUNNING over RUNNING
C19_Witness ==
    \E p, q \in Procs :
        /\ p # q
        /\ ReturnedOk(p, "start") /\ ReturnedOk(q, "start")
        /\ procs[p].machineId = procs[q].machineId
        /\ procs[p].called /\ procs[q].called
        /\ procs[p].fresh /\ procs[q].fresh
        /\ ~procs[p].stale /\ procs[q].stale
        /\ store[procs[p].machineId].status = RUNNING

\* C20 (as stated): with interleaved Reserves and Starts, a status in the
\* store changes only from AVAILABLE to AWAITING_DROPOFF or from
\* AWAITING_DROPOFF to RUNNING.
C20_InterleavedTransitionsAreLegal ==
    [][\A id \in MachineIds :
          store'[id].status # store[id].status
          => \/ store[id].status = AVAILABLE
                /\ store'[id].status = AWAITING_DROPOFF
             \/ store[id].status = AWAITING_DROPOFF
                /\ store'[id].status = RUNNING]_vars

====
